---- MODULE Spec2Model ----
(***************************************************************************)
(* Model of xfer (src/src/main.rs): the config store, the location         *)
(* resolver, the transfer dispatcher, remote listing and the onboarding     *)
(* glue of main.  Strings are sequences of one-character strings, so that  *)
(* splitting, trimming, prefix tests and formatting are computed.          *)
(***************************************************************************)
EXTENDS Integers, Sequences, FiniteSets, TLC

\* ------------------------------------------------------------------ bounds
\* Number of program runs (process invocations) explored one after another.
MaxRuns == 2

\* ----------------------------------------------------------- string helpers
\* Option<T>: <<>> is None, <<v>> is Some(v).
None == <<>>
Some(v) == <<v>>

\* str::contains(c)
Contains(s, c) == \E i \in 1..Len(s) : s[i] = c

\* position of the first occurrence of c in s (0 when absent)
FirstIndex(s, c) ==
  IF Contains(s, c)
    THEN CHOOSE i \in 1..Len(s) : s[i] = c /\ \A j \in 1..(i-1) : s[j] # c
    ELSE 0

\* str::splitn(2, c).collect(): at most two parts, split at the first c
splitn2(s, c) ==
  IF Contains(s, c)
    THEN << SubSeq(s, 1, FirstIndex(s, c) - 1),
            SubSeq(s, FirstIndex(s, c) + 1, Len(s)) >>
    ELSE << s >>

\* str::starts_with(c)
starts_with(s, c) == Len(s) > 0 /\ s[1] = c

IsSpace(ch) == ch \in {" ", "\n", "\t"}

RECURSIVE TrimStart(_)
TrimStart(s) ==
  IF Len(s) > 0 /\ IsSpace(s[1]) THEN TrimStart(Tail(s)) ELSE s

RECURSIVE TrimEnd(_)
TrimEnd(s) ==
  IF Len(s) > 0 /\ IsSpace(s[Len(s)])
    THEN TrimEnd(SubSeq(s, 1, Len(s) - 1)) ELSE s

\* str::trim()
trim(s) == TrimEnd(TrimStart(s))

\* str::to_lowercase() on the letters the prompts use
LowerChar(ch) == IF ch = "Y" THEN "y" ELSE IF ch = "N" THEN "n" ELSE ch
to_lowercase(s) == [i \in 1..Len(s) |-> LowerChar(s[i])]

Digits == <<"0", "1", "2", "3", "4", "5", "6", "7", "8", "9">>
DigitVal(ch) == (CHOOSE i \in 1..10 : Digits[i] = ch) - 1
IsDigit(ch) == \E i \in 1..10 : Digits[i] = ch

\* u16::to_string(): decimal digits, no leading zeros
RECURSIVE to_string(_)
to_string(n) ==
  IF n < 10 THEN << Digits[n + 1] >>
  ELSE to_string(n \div 10) \o << Digits[(n % 10) + 1] >>

RECURSIVE DecVal(_)
DecVal(s) ==
  IF Len(s) = 0 THEN 0
  ELSE 10 * DecVal(SubSeq(s, 1, Len(s) - 1)) + DigitVal(s[Len(s)])

U16Max == 65535

\* str::parse::<u16>(): None stands for the Err result
parse_u16(s) ==
  IF Len(s) > 0 /\ Len(s) <= 5 /\ (\A i \in 1..Len(s) : IsDigit(s[i]))
     /\ DecVal(s) <= U16Max
    THEN Some(DecVal(s))
    ELSE None

\* string literals of the source
S_local == <<"l", "o", "c", "a", "l">>
S_home == <<"/", "h", "o", "m", "e">>
S_ls_la == <<"l", "s", " ", "-", "l", "a", " ">>
S_ssh_i == <<"s", "s", "h", " ", "-", "i", " ">>
S_ssh_p == <<"s", "s", "h", " ", "-", "p", " ">>
S_p == <<" ", "-", "p", " ">>
S_y == <<"y">>
Slash == <<"/">>
Colon == <<":">>
At == <<"@">>

\* ------------------------------------------------------------- config store
EmptyServers == [a \in {} |-> None]

\* Config::load when no config file exists
EmptyConfig == [servers |-> EmptyServers, default_server |-> None]

\* Config::get_server
get_server(config, alias) ==
  IF alias \in DOMAIN config.servers THEN Some(config.servers[alias]) ELSE None

\* HashMap::insert
insert(servers, alias, sc) ==
  [a \in (DOMAIN servers) \cup {alias} |-> IF a = alias THEN sc ELSE servers[a]]

\* ---------------------------------------------------------- location parser
Ok(v) == [ok |-> TRUE, val |-> v]
Err(e) == [ok |-> FALSE, err |-> e]

\* variant: a relative path is always resolved against /home/<user>
parse_location_home_only(location_str, config) ==
  IF ~Contains(location_str, ":")
    THEN Ok(<< S_local, <<>>, location_str >>)
  ELSE LET parts == splitn2(location_str, ":")
           server == get_server(config, parts[1]) IN
      IF server = None
        THEN Err(<< "Unknown server alias", parts[1] >>)
      ELSE Ok(<< parts[1], server[1].host,
                 IF starts_with(parts[2], "/") THEN parts[2]
                 ELSE S_home \o Slash \o server[1].user \o Slash \o parts[2] >>)

\* variant: a location whose alias is not configured is taken as a local path
parse_location_unknown_as_local(location_str, config) ==
  IF ~Contains(location_str, ":") \/ get_server(config, splitn2(location_str, ":")[1]) = None
    THEN Ok(<< S_local, <<>>, location_str >>)
  ELSE LET parts == splitn2(location_str, ":")
           server == get_server(config, parts[1]) IN
      Ok(<< parts[1], server[1].host,
            IF starts_with(parts[2], "/") THEN parts[2]
            ELSE IF server[1].default_remote_path # None
              THEN server[1].default_remote_path[1] \o Slash \o parts[2]
            ELSE S_home \o Slash \o server[1].user \o Slash \o parts[2] >>)

parse_location(location_str, config) ==
  IF ~Contains(location_str, ":")
    THEN Ok(<< S_local, <<>>, location_str >>)
  ELSE LET parts == splitn2(location_str, ":") IN
    IF Len(parts) # 2
      THEN Err(<< "Invalid location format" >>)
    ELSE LET alias == parts[1]
             path == parts[2]
             server == get_server(config, alias) IN
      IF server = None
        THEN Err(<< "Unknown server alias", alias >>)
      ELSE LET remote_path ==
                 IF starts_with(path, "/") THEN path
                 ELSE IF server[1].default_remote_path # None
                   THEN server[1].default_remote_path[1] \o Slash \o path
                 ELSE S_home \o Slash \o server[1].user \o Slash \o path
           IN Ok(<< alias, server[1].host, remote_path >>)

\* ------------------------------------------------------- external processes
\* What the operating system does with a spawn request: the program cannot
\* be started, it exits with a non-success status, or it exits with success.
Outcomes == {"nostart", "fail", "ok"}

S_av == <<"-", "a", "v">>
S_avz == <<"-", "a", "v", "z">>
S_progress == <<"-", "-", "p", "r", "o", "g", "r", "e", "s", "s">>
S_e == <<"-", "e">>
S_i == <<"-", "i">>
S_P == <<"-", "P">>
S_pflag == <<"-", "p">>

\* Result<(), String> of an operation together with the processes it spawned
Done(spawned) == [ok |-> TRUE, err |-> <<>>, spawned |-> spawned]
Fail(e, spawned) == [ok |-> FALSE, err |-> e, spawned |-> spawned]

\* variant: the exit status of the process is not looked at
run_command_ignores_status(prog, args, outcome) ==
  IF outcome = "nostart"
    THEN Fail(<< "Failed to execute", prog >>, << [prog |-> prog, args |-> args] >>)
    ELSE Done(<< [prog |-> prog, args |-> args] >>)

\* Command::new(prog).args(args).output(), map_err, status.success() check
run_command(prog, args, outcome) ==
  LET proc == [prog |-> prog, args |-> args] IN
  IF outcome = "nostart" THEN Fail(<< "Failed to execute", prog >>, << proc >>)
  ELSE IF outcome = "fail" THEN Fail(<< "failed with exit code", prog >>, << proc >>)
  ELSE Done(<< proc >>)

run_rsync(src, dest, key_path, port, outcome) ==
  LET args0 == << S_avz, S_progress >>
      args1 ==
        IF key_path # None
          THEN IF port # None
                 THEN args0 \o << S_e, S_ssh_i \o key_path[1] \o S_p \o to_string(port[1]) >>
                 ELSE args0 \o << S_e, S_ssh_i \o key_path[1] >>
        ELSE IF port # None
          THEN args0 \o << S_e, S_ssh_p \o to_string(port[1]) >>
        ELSE args0
  IN run_command("rsync", args1 \o << src, dest >>, outcome)

\* variant: the port is dropped when an identity file is given
run_scp_key_hides_port(src, dest, key_path, port, outcome) ==
  run_command("scp",
              (IF key_path # None THEN << S_i, key_path[1] >>
               ELSE IF port # None THEN << S_P, to_string(port[1]) >>
               ELSE << >>) \o << src, dest >>,
              outcome)

run_scp(src, dest, key_path, port, outcome) ==
  LET args1 == IF key_path # None THEN << S_i, key_path[1] >> ELSE << >>
      args2 == IF port # None THEN args1 \o << S_P, to_string(port[1]) >> ELSE args1
  IN run_command("scp", args2 \o << src, dest >>, outcome)

\* format!("{}@{}:{}", user, host, remote_path)
remote_spec(user, host, remote_path) == user \o At \o host \o Colon \o remote_path

\* variant: a directory transfer whose rsync fails is tried again with scp
transfer_to_remote_fallback(local_path, host, user, remote_path, key_path, port, is_dir, outcome) ==
  LET first == IF is_dir
                 THEN run_rsync(local_path \o Slash, remote_spec(user, host, remote_path),
                                key_path, port, outcome)
                 ELSE run_scp(local_path, remote_spec(user, host, remote_path),
                              key_path, port, outcome)
      second == run_scp(local_path, remote_spec(user, host, remote_path),
                        key_path, port, outcome)
  IN IF first.ok \/ ~is_dir THEN first
     ELSE [second EXCEPT !.spawned = first.spawned \o second.spawned]

transfer_to_remote(local_path, host, user, remote_path, key_path, port, is_dir, outcome) ==
  IF is_dir
    THEN run_rsync(local_path \o Slash, remote_spec(user, host, remote_path),
                   key_path, port, outcome)
    ELSE run_scp(local_path, remote_spec(user, host, remote_path),
                 key_path, port, outcome)

transfer_from_remote(host, user, remote_path, local_path, key_path, port, outcome) ==
  run_scp(remote_spec(user, host, remote_path), local_path, key_path, port, outcome)

transfer_local_to_local(src, dest, is_dir, outcome) ==
  IF is_dir
    THEN run_command("rsync", << S_av, S_progress, src, dest >>, outcome)
    ELSE run_command("cp", << src, dest >>, outcome)

\* is_dir is Path::new(<the path handed to the transfer>).is_dir(), a fact
\* of the file system; outcome is what the spawned process does.
send_file(src, dest, config, is_dir, outcome) ==
  LET s == parse_location(src, config) IN
  IF ~s.ok THEN Fail(s.err, << >>)
  ELSE LET d == parse_location(dest, config) IN
  IF ~d.ok THEN Fail(d.err, << >>)
  ELSE LET src_alias == s.val[1]
           src_host == s.val[2]
           src_path == s.val[3]
           dest_alias == d.val[1]
           dest_host == d.val[2]
           dest_path == d.val[3]
       IN
    IF src_alias = S_local /\ dest_alias # S_local
      THEN LET server == get_server(config, dest_alias)[1] IN
           transfer_to_remote(src_path, dest_host, server.user, dest_path,
                              server.key_path, server.port, is_dir, outcome)
    ELSE IF src_alias # S_local /\ dest_alias = S_local
      THEN LET server == get_server(config, src_alias)[1] IN
           transfer_from_remote(src_host, server.user, src_path, dest_path,
                                server.key_path, server.port, outcome)
    ELSE IF src_alias = S_local /\ dest_alias = S_local
      THEN transfer_local_to_local(src_path, dest_path, is_dir, outcome)
    ELSE Fail(<< "Direct remote-to-remote transfers not supported yet" >>, << >>)

\* variant: an empty path is passed on as it is
list_remote_path_as_given(alias, path, config, outcome) ==
  LET server == get_server(config, alias) IN
  IF server = None THEN Fail(<< "Unknown server alias", alias >>, << >>)
  ELSE LET sv == server[1]
           args1 == IF sv.key_path # None THEN << S_i, sv.key_path[1] >> ELSE << >>
           args2 == IF sv.port # None
                      THEN args1 \o << S_pflag, to_string(sv.port[1]) >> ELSE args1
       IN run_command("ssh", args2 \o << sv.user \o At \o sv.host, S_ls_la \o path >>,
                      outcome)

list_remote(alias, path, config, outcome) ==
  LET server == get_server(config, alias) IN
  IF server = None THEN Fail(<< "Unknown server alias", alias >>, << >>)
  ELSE LET sv == server[1]
           remote_path ==
             IF Len(path) = 0
               THEN IF sv.default_remote_path # None
                      THEN sv.default_remote_path[1]
                      ELSE S_home \o Slash \o sv.user
               ELSE path
           args1 == IF sv.key_path # None THEN << S_i, sv.key_path[1] >> ELSE << >>
           args2 == IF sv.port # None
                      THEN args1 \o << S_pflag, to_string(sv.port[1]) >> ELSE args1
           host_str == sv.user \o At \o sv.host
           cmd_str == S_ls_la \o remote_path
       IN run_command("ssh", args2 \o << host_str, cmd_str >>, outcome)

\* ---------------------------------------------------------------- add_server
\* The lines typed at the prompts (each as read_line returns it) and the
\* point, if any, at which an I/O call of add_server fails:
\*   "read"   a flush/read_line before the entry is inserted fails,
\*   "prompt" the flush/read_line of the default-server prompt fails,
\*   "save"   Config::save fails,
\*   "none"   no I/O failure.
IoFailures == {"none", "read", "prompt", "save"}

\* variant: an answer of y replaces a default server that is already set
set_default_overwrites(c, alias, answer) ==
  IF to_lowercase(trim(answer)) = S_y
    THEN [c EXCEPT !.default_server = Some(alias)]
    ELSE c

\* add_server, lines 417-425: the default-server prompt and its effect
set_default(c, alias, answer) ==
  IF c.default_server = None /\ to_lowercase(trim(answer)) = S_y
    THEN [c EXCEPT !.default_server = Some(alias)]
    ELSE c

add_server(config, disk, in) ==
  LET alias == trim(in.alias)
      host == trim(in.host)
      user == trim(in.user)
      key_str == trim(in.key_path)
      key_path == IF Len(key_str) = 0 THEN None ELSE Some(key_str)
      port_str == trim(in.port)
      port_ok == Len(port_str) = 0 \/ parse_u16(port_str) # None
      port == IF Len(port_str) = 0 THEN None ELSE parse_u16(port_str)
      def_str == trim(in.default_path)
      default_path == IF Len(def_str) = 0 THEN None ELSE Some(def_str)
      server_config == [host |-> host, user |-> user, key_path |-> key_path,
                        port |-> port, default_remote_path |-> default_path]
      inserted == [config EXCEPT !.servers = insert(config.servers, alias, server_config)]
      asked == config.default_server = None
      entry == Some([alias |-> alias, server |-> server_config])
      final == set_default(inserted, alias, in.set_default)
  IN
  IF in.io = "read" \/ ~port_ok
    THEN [ok |-> FALSE, config |-> config, disk |-> disk, inserted |-> None]
  ELSE IF asked /\ in.io = "prompt"
    THEN [ok |-> FALSE, config |-> inserted, disk |-> disk, inserted |-> entry]
  ELSE IF in.io = "save"
    THEN [ok |-> FALSE, config |-> final, disk |-> disk, inserted |-> entry]
  ELSE [ok |-> TRUE, config |-> final, disk |-> final, inserted |-> entry]

\* ------------------------------------------------------------------- inputs
Line(s) == s \o << "\n" >>
S_a == << "a" >>
S_b == << "b" >>
S_f == << "f" >>
S_absf == << "/", "f" >>
S_fcf == << "f", ":", "f" >>
S_h == << "h" >>
S_u == << "u" >>
S_k == << "k" >>
S_d == << "/", "d" >>
S_22 == << "2", "2" >>
S_2x == << "2", "x" >>
Blank == << >>

\* Location strings given on the command line: a bare path, alias:path for
\* configurable aliases a and local (empty, relative, absolute and
\* colon-carrying paths) and for the alias b that is never configured.
Locations ==
  { S_f }
  \cup { S_a \o Colon \o p : p \in { Blank, S_f, S_absf, S_fcf } }
  \cup { S_local \o Colon \o p : p \in { S_f, S_absf } }
  \cup { S_b \o Colon \o S_f }

AddInputs ==
  { in \in [ alias : { Line(S_a), << " " >> \o Line(S_local) },
             host : { Line(S_h) },
             user : { Line(S_u) },
             key_path : { Line(Blank), Line(S_k) },
             port : { Line(Blank), Line(S_22), Line(S_2x) },
             default_path : { Line(Blank), Line(S_d) },
             set_default : { Line(<< "y" >>), Line(<< "Y" >>), Line(<< "n" >>) },
             io : IoFailures ] :
      trim(in.alias) = S_local =>
        \/ in.key_path = Line(Blank) /\ in.port = Line(Blank) /\ in.default_path = Line(Blank)
        \/ in.key_path = Line(S_k) /\ in.port = Line(S_22) /\ in.default_path = Line(S_d) }

\* -------------------------------------------------------------------- state
VARIABLES
  disk,          \* the config file ~/.config/xfer/config.toml
  config,        \* the Config value held by the running process
  pc,            \* position of main: "start", "loaded", "ready", "done"
  runs,          \* number of finished program runs
  cmd,           \* the subcommand executed in this run and its arguments
  env,           \* what the file system and the spawned process answered
  spawned,       \* the external processes spawned in this run, in order
  result,        \* Result of the operation the subcommand called
  exit_status,   \* exit status of the process, None while it runs
  events,        \* onboarding prompt, subcommand and add_server calls, in order
  started_empty, \* whether the loaded config had no server
  parsed,        \* the results of the parse_location calls of this run, in order
  last_add       \* the entry the last add_server call of this run inserted, if any

vars == << disk, config, pc, runs, cmd, env, spawned, result, exit_status,
           events, started_empty, parsed, last_add >>

NoCmd == [name |-> "", args |-> << >>]
NoEnv == [is_dir |-> FALSE, outcome |-> "ok"]
NoResult == [ok |-> TRUE, err |-> << >>]

Init ==
  /\ disk = EmptyConfig
  /\ config = EmptyConfig
  /\ pc = "start"
  /\ runs = 0
  /\ cmd = NoCmd
  /\ env = NoEnv
  /\ spawned = << >>
  /\ result = NoResult
  /\ exit_status = None
  /\ events = << >>
  /\ started_empty = FALSE
  /\ parsed = << >>
  /\ last_add = None

\* main, line 496: Config::load (a missing file gives the empty config; an
\* existing file may fail to be read or parsed, and main returns the error)
Load ==
  /\ pc = "start"
  /\ \E load_ok \in BOOLEAN :
       /\ (disk = EmptyConfig => load_ok)
       /\ IF load_ok
            THEN /\ config' = disk
                 /\ started_empty' = (DOMAIN disk.servers = {})
                 /\ pc' = "loaded"
                 /\ exit_status' = None
            ELSE /\ pc' = "done"
                 /\ exit_status' = Some(1)
                 /\ UNCHANGED << config, started_empty >>
  /\ UNCHANGED << disk, runs, cmd, env, spawned, result, events, parsed, last_add >>

\* variant: the onboarding runs whatever the config holds
needs_onboarding_always(c) == DOMAIN c.servers = DOMAIN c.servers

\* main, line 498: config.servers.is_empty()
needs_onboarding(c) == DOMAIN c.servers = {}

\* main, lines 498-504: first-run onboarding
Onboarding ==
  /\ pc = "loaded"
  /\ IF needs_onboarding(config)
       THEN \E in \in AddInputs :
              LET r == add_server(config, disk, in) IN
              /\ config' = r.config
              /\ disk' = r.disk
              /\ last_add' = r.inserted
              /\ events' = events \o << "prompt", "add_server" >>
              /\ IF r.ok
                   THEN pc' = "ready" /\ exit_status' = None
                   ELSE pc' = "done" /\ exit_status' = Some(1)
       ELSE /\ pc' = "ready"
            /\ UNCHANGED << config, disk, events, exit_status, last_add >>
  /\ UNCHANGED << runs, cmd, env, spawned, result, started_empty, parsed >>

\* send_file, lines 106-107: the parse_location calls it makes; the second
\* one is not reached when the first returns an error
parse_calls(src, dest, c) ==
  IF parse_location(src, c).ok
    THEN << parse_location(src, c), parse_location(dest, c) >>
    ELSE << parse_location(src, c) >>

\* main, lines 507-536: the send, get and sync arms all call send_file
Transfer(name) ==
  /\ pc = "ready"
  /\ \E src \in Locations, dest \in Locations, is_dir \in BOOLEAN, outcome \in Outcomes :
       LET r == send_file(src, dest, config, is_dir, outcome) IN
       /\ cmd' = [name |-> name, args |-> << src, dest >>]
       /\ parsed' = parse_calls(src, dest, config)
       /\ env' = IF r.spawned = << >> THEN NoEnv
                 ELSE [is_dir |-> is_dir, outcome |-> outcome]
       /\ spawned' = spawned \o r.spawned
       /\ result' = [ok |-> r.ok, err |-> r.err]
       /\ exit_status' = IF r.ok THEN Some(0) ELSE Some(1)
  /\ events' = Append(events, name)
  /\ pc' = "done"
  /\ UNCHANGED << disk, config, runs, started_empty, last_add >>

Send == Transfer("send")
Get == Transfer("get")
Sync == Transfer("sync")

\* main, lines 537-557
List ==
  /\ pc = "ready"
  /\ \E location \in Locations, outcome \in Outcomes :
       LET parts == splitn2(location, ":") IN
       /\ cmd' = [name |-> "list", args |-> << location >>]
       /\ IF Len(parts) # 2
            THEN /\ env' = NoEnv
                 /\ spawned' = spawned
                 /\ result' = [ok |-> FALSE, err |-> << "Invalid location format" >>]
                 /\ exit_status' = Some(1)
            ELSE LET r == list_remote(parts[1], parts[2], config, outcome) IN
                 /\ env' = IF r.spawned = << >> THEN NoEnv
                           ELSE [is_dir |-> FALSE, outcome |-> outcome]
                 /\ spawned' = spawned \o r.spawned
                 /\ result' = [ok |-> r.ok, err |-> r.err]
                 /\ exit_status' = IF r.ok THEN Some(0) ELSE Some(1)
  /\ events' = Append(events, "list")
  /\ pc' = "done"
  /\ UNCHANGED << disk, config, runs, started_empty, parsed, last_add >>

\* main, lines 558-564
ServerAdd ==
  /\ pc = "ready"
  /\ \E in \in AddInputs :
       LET r == add_server(config, disk, in) IN
       /\ config' = r.config
       /\ disk' = r.disk
       /\ last_add' = r.inserted
       /\ result' = [ok |-> r.ok, err |-> IF r.ok THEN << >> ELSE << "add_server" >>]
       /\ exit_status' = IF r.ok THEN Some(0) ELSE Some(1)
  /\ cmd' = [name |-> "server add", args |-> << >>]
  /\ events' = events \o << "server add", "add_server" >>
  /\ pc' = "done"
  /\ UNCHANGED << runs, env, spawned, started_empty, parsed >>

\* main, lines 565-580: prints the configured servers
ServerList ==
  /\ pc = "ready"
  /\ cmd' = [name |-> "server list", args |-> << >>]
  /\ events' = Append(events, "server list")
  /\ exit_status' = Some(0)
  /\ pc' = "done"
  /\ UNCHANGED << disk, config, runs, env, spawned, result, started_empty, parsed, last_add >>

\* main, lines 583-585: no subcommand
NoCommand ==
  /\ pc = "ready"
  /\ cmd' = [name |-> "none", args |-> << >>]
  /\ events' = Append(events, "none")
  /\ exit_status' = Some(0)
  /\ pc' = "done"
  /\ UNCHANGED << disk, config, runs, env, spawned, result, started_empty, parsed, last_add >>

\* The process has exited; the user starts the program again.  Only the
\* config file survives.
Restart ==
  /\ pc = "done"
  /\ runs < MaxRuns
  /\ runs' = runs + 1
  /\ pc' = "start"
  /\ config' = EmptyConfig
  /\ cmd' = NoCmd
  /\ env' = NoEnv
  /\ spawned' = << >>
  /\ result' = NoResult
  /\ exit_status' = None
  /\ events' = << >>
  /\ started_empty' = FALSE
  /\ parsed' = << >>
  /\ last_add' = None
  /\ UNCHANGED disk

Next ==
  \/ Load
  \/ Onboarding
  \/ Send
  \/ Get
  \/ Sync
  \/ List
  \/ ServerAdd
  \/ ServerList
  \/ NoCommand
  \/ Restart

Spec == Init /\ [][Next]_vars

\* =================================================================== claims
\* Vocabulary of the properties, stated on the location strings themselves.
IsTransferDone == pc = "done" /\ cmd.name \in {"send", "get", "sync"}
IsListDone == pc = "done" /\ cmd.name = "list"

\* loc is a bare path: it contains no ':'
IsBare(loc) == \A i \in 1..Len(loc) : loc[i] # ":"

\* loc = al:path for the colon-free alias al
HasAlias(loc, al) ==
  /\ IsBare(al)
  /\ Len(loc) > Len(al)
  /\ SubSeq(loc, 1, Len(al)) = al
  /\ loc[Len(al) + 1] = ":"

\* the path part of loc = al:path
PathPart(loc, al) == SubSeq(loc, Len(al) + 2, Len(loc))

\* loc has the form alias:path with a configured alias
IsRemoteForm(loc) == \E al \in DOMAIN config.servers : HasAlias(loc, al)

\* loc has the form alias:path with an alias that is not configured
IsUnknownAlias(loc) == ~IsBare(loc) /\ ~IsRemoteForm(loc)

Resolves(loc) == IsBare(loc) \/ IsRemoteForm(loc)

Src == cmd.args[1]
Dest == cmd.args[2]
Proc == spawned[1]
SrcArg == Proc.args[Len(Proc.args) - 1]
DestArg == Proc.args[Len(Proc.args)]

\* C1: for every pair of locations that both resolve, send_file picks the
\* mode from the (source kind, destination kind) pair: local->local spawns
\* cp or rsync (directory), local->remote spawns scp or rsync (directory),
\* remote->local spawns scp, remote->remote spawns nothing and returns
\* 'Direct remote-to-remote transfers not supported yet'.
C1_ModeFromKinds ==
  (IsTransferDone /\ Resolves(Src) /\ Resolves(Dest)) =>
    IF IsBare(Src) /\ IsBare(Dest)
      THEN /\ Len(spawned) = 1
           /\ Proc.prog = IF env.is_dir THEN "rsync" ELSE "cp"
    ELSE IF IsBare(Src) /\ IsRemoteForm(Dest)
      THEN /\ Len(spawned) = 1
           /\ Proc.prog = IF env.is_dir THEN "rsync" ELSE "scp"
    ELSE IF IsRemoteForm(Src) /\ IsBare(Dest)
      THEN /\ Len(spawned) = 1
           /\ Proc.prog = "scp"
    ELSE /\ spawned = << >>
         /\ ~result.ok
         /\ result.err = << "Direct remote-to-remote transfers not supported yet" >>

\* C2: the dispatcher treats a location as remote (hands it to the spawned
\* process as user@host:path) if and only if it has the form alias:path with
\* a configured alias, and as a local path if and only if it is a bare path
\* without ':'.
C2_RemoteIffConfiguredAlias ==
  (IsTransferDone /\ Len(spawned) = 1) =>
    /\ IsRemoteForm(Src) <=> Contains(SrcArg, "@")
    /\ IsRemoteForm(Dest) <=> Contains(DestArg, "@")
    /\ IsBare(Src) <=> ~Contains(SrcArg, "@")
    /\ IsBare(Dest) <=> ~Contains(DestArg, "@")

\* ----------------------------------------------------------------------- C3
HomePrefix == << "/", "h", "o", "m", "e", "/" >>

\* the remote path the claim expects for the path part p on server sv
ExpectedRemotePath(p, sv) ==
  IF Len(p) > 0 /\ p[1] = "/" THEN p
  ELSE IF sv.default_remote_path # None
    THEN sv.default_remote_path[1] \o << "/" >> \o p
  ELSE HomePrefix \o sv.user \o << "/" >> \o p

\* C3: for every location alias:path with a configured alias, parse_location
\* returns the alias, the server's configured host and the path resolved as:
\* path itself when it starts with '/', else D/path for the default remote
\* path D, else /home/<user>/path; the split is at the first ':' only.
C3_RemotePathResolution ==
  \A i \in 1..Len(parsed) :
    \A al \in DOMAIN config.servers :
      HasAlias(cmd.args[i], al) =>
        /\ parsed[i].ok
        /\ parsed[i].val = << al, config.servers[al].host,
                              ExpectedRemotePath(PathPart(cmd.args[i], al),
                                                 config.servers[al]) >>

\* a relative path carrying a later ':' was resolved against a default path
C3_Witness ==
  /\ IsTransferDone
  /\ Len(parsed) = 2
  /\ Dest = S_a \o Colon \o S_fcf
  /\ S_a \in DOMAIN config.servers
  /\ config.servers[S_a].default_remote_path = Some(S_d)
  /\ parsed[2].ok
  /\ parsed[2].val[3] = << "/", "d", "/", "f", ":", "f" >>

\* ----------------------------------------------------------------------- C4
\* C4: whenever a send, get, sync or list command spawned an external
\* process, the operation returned an error if and only if the process could
\* not be started or exited with a non-success status; the program then
\* exits with status 1, and with status 0 on a success status.
C4_ErrorIffProcessFailed ==
  (pc = "done" /\ cmd.name \in {"send", "get", "sync", "list"} /\ Len(spawned) >= 1) =>
    /\ ~result.ok <=> env.outcome \in {"nostart", "fail"}
    /\ ~result.ok => exit_status = Some(1)
    /\ result.ok => exit_status = Some(0)
    /\ Len(spawned) = 1

\* a spawned scp exited with a non-success status and the program exits 1
C4_Witness ==
  /\ IsTransferDone
  /\ Len(spawned) = 1
  /\ Proc.prog = "scp"
  /\ env.outcome = "fail"
  /\ ~result.ok
  /\ exit_status = Some(1)

\* ----------------------------------------------------------------------- C5
\* C5: in every run at most one external process is spawned, whatever the
\* subcommand and the outcome of the process (no retry, no second process).
C5_AtMostOneProcess ==
  /\ Len(spawned) <= 1
  /\ \A i \in 1..Len(spawned) : spawned[i].prog \in {"cp", "rsync", "scp", "ssh"}

\* a spawned process failed and the run ended with that single process
C5_Witness ==
  /\ pc = "done"
  /\ Len(spawned) = 1
  /\ env.outcome \in {"nostart", "fail"}
  /\ exit_status = Some(1)

\* ----------------------------------------------------------------------- C6
Count(seq, x) == Cardinality({ i \in 1..Len(seq) : seq[i] = x })

\* C6: on a run that starts with no server configured the onboarding prompt
\* occurs exactly once and before the requested subcommand is executed (the
\* only later add_server call is the one of the 'server add' subcommand
\* itself); on a run that starts with at least one server configured the
\* onboarding prompt does not occur and add_server runs only for the
\* 'server add' subcommand.
C6_OnboardingOnceBeforeSubcommand ==
  /\ (pc \in {"ready", "done"} /\ started_empty) =>
       /\ Len(events) >= 2
       /\ events[1] = "prompt"
       /\ events[2] = "add_server"
       /\ Count(events, "prompt") = 1
       /\ Count(events, "add_server") = IF cmd.name = "server add" THEN 2 ELSE 1
       /\ cmd.name # "" => (Len(events) >= 3 /\ events[3] = cmd.name)
  /\ (pc \in {"ready", "done"} /\ ~started_empty) =>
       /\ Count(events, "prompt") = 0
       /\ Count(events, "add_server") = IF cmd.name = "server add" THEN 1 ELSE 0

\* a first run onboarded a server and then executed the send subcommand
C6_Witness ==
  /\ pc = "done"
  /\ started_empty
  /\ events = << "prompt", "add_server", "send" >>
  /\ Len(spawned) = 1

\* ----------------------------------------------------------------------- C7
LsPrefix == << "l", "s", " ", "-", "l", "a", " " >>

ListAliasCase(al) ==
  IsListDone /\ al \in DOMAIN config.servers /\ HasAlias(cmd.args[1], al)

\* C7 as stated: for every list command with location alias:path whose alias
\* is configured, ssh is spawned with the alias as the connection target and
\* the remote command 'ls -la <path>', <path> being the path part of the
\* location string.
C7_SshAliasLsPath ==
  \A al \in DOMAIN config.servers :
    ListAliasCase(al) =>
      /\ Len(spawned) = 1
      /\ Proc.prog = "ssh"
      /\ SrcArg = al
      /\ DestArg = LsPrefix \o PathPart(cmd.args[1], al)

\* C7 amended: for every list command with location alias:path whose alias
\* is configured, ssh is spawned with <user>@<host> of that server as the
\* connection target and the remote command 'ls -la <path>', where <path> is
\* the path part of the location string when it is not empty, and otherwise
\* the server's default remote path, or /home/<user> when none is configured.
C7_SshUserHostLsPath ==
  \A al \in DOMAIN config.servers :
    ListAliasCase(al) =>
      LET sv == config.servers[al]
          p == PathPart(cmd.args[1], al)
          shown == IF Len(p) > 0 THEN p
                   ELSE IF sv.default_remote_path # None
                     THEN sv.default_remote_path[1]
                   ELSE << "/", "h", "o", "m", "e", "/" >> \o sv.user
      IN /\ Len(spawned) = 1
         /\ Proc.prog = "ssh"
         /\ SrcArg = sv.user \o << "@" >> \o sv.host
         /\ DestArg = LsPrefix \o shown

\* a list of alias: (empty path) on a server with a default remote path
C7_Witness ==
  /\ IsListDone
  /\ cmd.args[1] = S_a \o Colon
  /\ S_a \in DOMAIN config.servers
  /\ config.servers[S_a].default_remote_path = Some(S_d)
  /\ Len(spawned) = 1
  /\ DestArg = LsPrefix \o S_d

\* ----------------------------------------------------------------------- C8
IsPrefixOf(x, y) == Len(x) <= Len(y) /\ SubSeq(y, 1, Len(x)) = x
IsInfixOf(x, y) ==
  \E i \in 1..(Len(y) - Len(x) + 1) : SubSeq(y, i, i + Len(x) - 1) = x

\* flag followed by value, both before the last two arguments
HasOption(args, flag, value) ==
  \E i \in 1..(Len(args) - 3) : args[i] = flag /\ args[i + 1] = value
HasFlag(args, flag) == \E i \in 1..Len(args) : args[i] = flag

\* the decimal text of a configured port, read back as a number
IsPortText(text, port) ==
  /\ Len(text) > 0
  /\ \A i \in 1..Len(text) : text[i] \in {"0", "1", "2", "3", "4", "5", "6", "7", "8", "9"}
  /\ DecVal(text) = port

\* the servers the spawned scp or rsync talks to: the configured aliases,
\* other than the word the dispatcher reserves for local paths, that the
\* source or the destination names
RemoteEnds ==
  { al \in DOMAIN config.servers :
      al # << "l", "o", "c", "a", "l" >> /\ (HasAlias(Src, al) \/ HasAlias(Dest, al)) }

IsRemoteScp == Len(spawned) = 1 /\ Proc.prog = "scp"
IsRemoteRsync ==
  Len(spawned) = 1 /\ Proc.prog = "rsync" /\ Proc.args[1] = << "-", "a", "v", "z" >>

DefaultIsConfigured(c) ==
  c.default_server = None \/ c.default_server[1] \in DOMAIN c.servers

\* a step in which add_server ran
AddServerStep == Count(events', "add_server") = Count(events, "add_server") + 1

\* C9: starting from the empty config, after any sequence of add_server
\* calls (successful or failed) the default alias is unset or names a
\* configured server; once set, the default alias is not changed by a later
\* add_server; and an add_server call that reaches the insertion maps the
\* alias to the new entry, leaves the other entries alone and, when the
\* alias exists already, does not change the number of servers.
C9_DefaultAliasAndReAdd ==
  /\ [](DefaultIsConfigured(config) /\ DefaultIsConfigured(disk))
  /\ [][ /\ disk.default_server # None => disk'.default_server = disk.default_server
         /\ AddServerStep =>
              /\ config.default_server # None =>
                   config'.default_server = config.default_server
              /\ last_add' = None => config' = config
              /\ last_add' # None =>
                   LET al == last_add'[1].alias IN
                   /\ DOMAIN config'.servers = (DOMAIN config.servers) \cup {al}
                   /\ config'.servers[al] = last_add'[1].server
                   /\ \A o \in (DOMAIN config.servers) \ {al} :
                        config'.servers[o] = config.servers[o]
                   /\ al \in DOMAIN config.servers =>
                        Cardinality(DOMAIN config'.servers)
                          = Cardinality(DOMAIN config.servers)
       ]_vars

\* an existing alias was added again with other settings while another
\* alias is the default
C9_Witness ==
  /\ pc = "done"
  /\ cmd.name = "server add"
  /\ ~started_empty
  /\ last_add # None
  /\ last_add[1].alias = S_a
  /\ disk.default_server = Some(S_local)
  /\ Cardinality(DOMAIN disk.servers) = 2
  /\ result.ok

\* ---------------------------------------------------------------------- C10
\* C10: a send, get or sync command whose source or destination names an
\* alias that is not configured returns 'Unknown server alias' and spawns no
\* process, even when the other location is valid; a list command with an
\* unconfigured alias, or with a location without ':', fails without
\* spawning ssh.
C10_ResolveBeforeSpawn ==
  /\ (IsTransferDone /\ (IsUnknownAlias(Src) \/ IsUnknownAlias(Dest))) =>
       /\ spawned = << >>
       /\ ~result.ok
       /\ result.err[1] = "Unknown server alias"
       /\ exit_status = Some(1)
  /\ (IsListDone /\ ~IsRemoteForm(cmd.args[1])) =>
       /\ spawned = << >>
       /\ ~result.ok
       /\ exit_status = Some(1)

\* the source resolved to a configured server, the destination did not
C10_Witness ==
  /\ IsTransferDone
  /\ IsRemoteForm(Src)
  /\ IsUnknownAlias(Dest)
  /\ spawned = << >>
  /\ exit_status = Some(1)
====
